---- MODULE Spec2Model ----
(***************************************************************************)
(* HttpClient (frontend shared/lib/http-client.ts, cookie-auth version):   *)
(* request() with its backoff loop, makeRequest() with the 401 interceptor,*)
(* refreshAccessToken() / performRefresh() with the shared refresh promise.*)
(*                                                                         *)
(* One action is one continuation of the event loop: the code that runs    *)
(* between two awaits.  Reading an error body (response.json()) touches no *)
(* shared state and is folded into the continuation that throws the error. *)
(* Continuations of different calls interleave in any order.               *)
(***************************************************************************)
EXTENDS Integers, Sequences, FiniteSets, TLC

\* ---------------------------------------------------------------- bounds
NumCalls == 2

Calls == 1..NumCalls

\* ------------------------------------------------- DEFAULT_RETRY_CONFIG
maxRetries == 3

\* every renewal is started by one attempt of one call
PromiseIds == 1..(NumCalls * maxRetries)

Null == 0

\* ------------------------------------------------------------- endpoints
RefreshEndpoint == "/auth/refresh"

LoginEndpoint == "/auth/login"

Endpoints == {"/todos", RefreshEndpoint, LoginEndpoint}

\* ------------------------------------------------- responses of fetch()
\* Error messages are sequences of words; String.includes is modelled at
\* word granularity.
Includes(message, word) == \E i \in 1..Len(message) : message[i] = word

Details == { <<"Not", "found">>, <<"Request", "timeout">> }

Unparseable == <<>>

\* why the server answered 401: the access credential had expired, or it was
\* malformed or otherwise invalid; "none" for every other response
Causes == {"expired", "invalid"}

OkResponses ==
    { [kind |-> "http", status |-> 200, body |-> "json", detail |-> Unparseable,
       cause |-> "none"],
      [kind |-> "http", status |-> 200, body |-> "malformed", detail |-> Unparseable,
       cause |-> "none"],
      [kind |-> "http", status |-> 200, body |-> "text", detail |-> Unparseable,
       cause |-> "none"],
      [kind |-> "http", status |-> 200, body |-> "empty", detail |-> Unparseable,
       cause |-> "none"],
      [kind |-> "http", status |-> 204, body |-> "empty", detail |-> Unparseable,
       cause |-> "none"] }

ErrorStatuses == {401, 404, 500}

ErrorResponses ==
    { r \in [kind : {"http"}, status : ErrorStatuses, body : {"json"},
             detail : Details \cup {Unparseable}, cause : Causes \cup {"none"}] :
        (r.status = 401) <=> (r.cause \in Causes) }

\* fetch() rejects with a TypeError whose text depends on the user agent
NetworkErrorMessages == { <<"Failed", "to", "fetch">>, <<"Load", "failed">> }

NetworkErrors ==
    [kind : {"reject"}, status : {0}, body : {"none"}, detail : NetworkErrorMessages,
     cause : {"none"}]

Responses == OkResponses \cup ErrorResponses \cup NetworkErrors

\* Response.ok
Ok(response) == response.kind = "http" /\ response.status >= 200 /\ response.status <= 299

\* ----------------------------------------------------------------- errors
NoError == [status |-> 0, message |-> <<>>]

AuthRequired == [status |-> 401, message |-> <<"Authentication", "required">>]

\* variant: err.status is not set
HttpErrorWithoutStatus(response) ==
    [status |-> 0,
     message |-> IF response.detail = Unparseable
                 THEN <<"HTTP", "Error", ToString(response.status)>>
                 ELSE response.detail]

\* the error makeRequest throws for a non-ok response
HttpError(response) ==
    [status |-> response.status,
     message |-> IF response.detail = Unparseable
                 THEN <<"HTTP", "Error", ToString(response.status)>>
                 ELSE response.detail]

\* fetch() rejected: the TypeError carries no status
FetchError(response) == [status |-> 0, message |-> response.detail]

ErrorOf(response) ==
    IF response.kind = "reject" THEN FetchError(response) ELSE HttpError(response)

\* response.json() of an ok response whose body is not JSON rejects
ParseError == [status |-> 0, message |-> <<"Unexpected", "token">>]

\* the value makeRequest returns for an ok response: undefined for 204 and
\* for content-length 0, response.json() for content-type application/json
\* ("rejects" when the body does not parse), undefined otherwise
BodyOf(response) ==
    IF response.status = 204 \/ response.body = "empty" THEN "undefined"
    ELSE IF response.body = "json" THEN "json"
    ELSE IF response.body = "malformed" THEN "rejects"
    ELSE "undefined"

\* variant: every error status counts as retryable
isRetryableErrorAnyFailure(error, status) ==
    IF Includes(error.message, "fetch") \/ Includes(error.message, "network") THEN TRUE
    ELSE IF status # 0 /\ status >= 400 THEN TRUE
    ELSE IF Includes(error.message, "timeout") THEN TRUE
    ELSE FALSE

\* message tests first, then "status && status >= 500", then the timeout test
isRetryableError(error, status) ==
    IF Includes(error.message, "fetch") \/ Includes(error.message, "network") THEN TRUE
    ELSE IF status # 0 /\ status >= 500 THEN TRUE
    ELSE IF Includes(error.message, "timeout") THEN TRUE
    ELSE FALSE

\* variant: the login endpoint is not excluded
ExemptRefreshOnly(endpoint) == endpoint = RefreshEndpoint

\* endpoints on which a 401 does not lead to refreshAccessToken()
Exempt(endpoint) == endpoint = RefreshEndpoint \/ endpoint = LoginEndpoint

\* ------------------------------------------------------------------ state
VARIABLES
    isRefreshing,     \* HttpClient.isRefreshing
    refreshPromise,   \* HttpClient.refreshPromise: Null or a promise id
    promises,         \* promise id -> "unused" | "pending" | "true" | "false"
    refreshReply,     \* promise id -> what the refresh fetch ended with
    call,             \* per invocation of request(): its position and locals
    user,             \* AuthProvider: useState<User | null>
    isLoading,        \* AuthProvider: useState(true)
    authError,        \* AuthProvider: error, useState<string | null>
    task,             \* AuthProvider: per async function call, its position
    now,              \* server clock
    records,          \* credential store: hash -> RenewalCredential record
    cookie,           \* transport storage of the browser
    issued,           \* number of access credentials minted so far
    created,          \* number of renewal credentials created so far
    last,             \* the latest server operation and its response
    verify,           \* a verifyRenewalCredential call in flight
    retryConfig,      \* HttpClient.retryConfig
    loop,             \* the retry loop of one request() under retryConfig
    progressLoading,  \* ProgressProvider: isLoading, useState(false)
    loadingCount,     \* ProgressProvider: useState(0)
    progressCalls,    \* the startLoading and stopLoading calls made so far
    todos,            \* useTodos: useState<Todo[]>([])
    total,            \* useTodos: useState(0)
    todosLoading,     \* useTodos: isLoading, useState(true)
    todosError,       \* useTodos: error, useState<string | null>(null)
    fetch             \* useTodos: per fetchTodos call, its position

clientVars == <<isRefreshing, refreshPromise, promises, refreshReply, call>>

authVars == <<user, isLoading, authError, task>>

storeVars == <<now, records, cookie, issued, created, last, verify>>

delayVars == <<retryConfig, loop>>

progressVars == <<progressLoading, loadingCount, progressCalls>>

todosVars == <<todos, total, todosLoading, todosError, fetch>>

pageVars == <<delayVars, progressVars, todosVars>>

vars == <<clientVars, authVars, storeVars, pageVars>>

NoStatus == -1

\* pc        where the invocation is suspended
\* attempt   loop variable of request()
\* awaited   the promise "await this.refreshAccessToken()" waits for
\* refreshed the value that await produced in the current makeRequest
\* tries     fetches of the endpoint sent by the current makeRequest
\* status    status of the latest response in the current makeRequest
\*           (NoStatus while none has arrived, 0 when fetch rejected)
\* cause     why the server sent that response, when it is a 401
\* sent, renewals   totals over the whole invocation
IdleCall ==
    [pc |-> "idle", endpoint |-> "", attempt |-> 0, awaited |-> Null,
     refreshed |-> "none", tries |-> 0, status |-> NoStatus, cause |-> "none",
     sent |-> 0, renewals |-> 0,
     result |-> [from |-> "none", value |-> "none"], error |-> NoError]

ClientInit ==
    /\ isRefreshing = FALSE
    /\ refreshPromise = Null
    /\ promises = [p \in PromiseIds |-> "unused"]
    /\ refreshReply = [p \in PromiseIds |-> "none"]
    /\ call = [c \in Calls |-> IdleCall]

\* ============================================================ AuthProvider
\* bound: calls of checkAuth, login, register and logout in one run
NumTasks == 3

Tasks == 1..NumTasks

\* the users the server knows; a User object is modelled by its username
Users == {"alice", "bob"}

NoUser == "null"

NoMessage == "null"

\* Error.message of what httpClient.request throws
AuthMessages == {"Authentication required", "Invalid credentials"}

OkReply(body) == [ok |-> TRUE, body |-> body, message |-> NoMessage]

FailReply(message) == [ok |-> FALSE, body |-> NoUser, message |-> message]

NoReply == [ok |-> FALSE, body |-> NoUser, message |-> NoMessage]

\* what the awaited authService call can settle with: /users/me and
\* /auth/register answer with a User, /auth/login and /auth/logout do not
RepliesTo(awaiting) ==
    (IF awaiting \in {"me", "register"}
     THEN {OkReply(u) : u \in Users}
     ELSE {OkReply(NoUser)})
    \cup {FailReply(m) : m \in AuthMessages}

\* since: the number of logout calls that had settled when the call was made
IdleTask == [kind |-> "none", pc |-> "idle", arg |-> NoUser, got |-> NoReply,
             since |-> 0]

AuthInit ==
    /\ user = NoUser
    /\ isLoading = TRUE
    /\ authError = NoMessage
    /\ task = [t \in Tasks |-> IdleTask]

\* "!!user"
Truthy(value) == value # NoUser

isAuthenticated == Truthy(user)

Mounted == \E t \in Tasks : task[t].kind = "checkAuth"

\* the logout calls that have settled
LogoutsSettled ==
    Cardinality({t \in Tasks : task[t].kind = "logout" /\ task[t].pc = "resolved"})

\* useEffect(() => { checkAuth() }, []): runs once, up to its await
Mount(t) ==
    /\ ~Mounted
    /\ task[t].pc = "idle"
    /\ task' = [task EXCEPT ![t] = [@ EXCEPT !.kind = "checkAuth", !.pc = "me"]]
    /\ UNCHANGED <<user, isLoading, authError>>
    /\ UNCHANGED <<clientVars, storeVars, pageVars>>

\* checkAuth after "await authService.getCurrentUser()"
CheckAuthResume(t, reply) ==
    /\ task[t].kind = "checkAuth"
    /\ task[t].pc = "me"
    /\ reply \in RepliesTo("me")
    /\ user' = IF reply.ok THEN reply.body ELSE NoUser
    /\ isLoading' = FALSE
    /\ task' = [task EXCEPT ![t] = [@ EXCEPT !.pc = "resolved", !.got = reply]]
    /\ UNCHANGED authError
    /\ UNCHANGED <<clientVars, storeVars, pageVars>>

\* variant: the user is taken from the credentials typed in
LoginFromCredentials(t, username) ==
    /\ Mounted
    /\ task[t].pc = "idle"
    /\ user' = username
    /\ isLoading' = TRUE
    /\ authError' = NoMessage
    /\ task' = [task EXCEPT ![t] = [@ EXCEPT !.kind = "login", !.pc = "login",
                                             !.arg = username,
                                             !.since = LogoutsSettled]]
    /\ UNCHANGED <<clientVars, storeVars, pageVars>>

\* login(username, password) up to "await authService.login(...)"
Login(t, username) ==
    /\ Mounted
    /\ task[t].pc = "idle"
    /\ isLoading' = TRUE
    /\ authError' = NoMessage
    /\ task' = [task EXCEPT ![t] = [@ EXCEPT !.kind = "login", !.pc = "login",
                                             !.arg = username,
                                             !.since = LogoutsSettled]]
    /\ UNCHANGED user
    /\ UNCHANGED <<clientVars, storeVars, pageVars>>

\* login after either of its awaits
LoginResume(t, reply) ==
    /\ task[t].kind = "login"
    /\ task[t].pc \in {"login", "me"}
    /\ reply \in RepliesTo(task[t].pc)
    /\ IF ~reply.ok
       THEN /\ authError' = reply.message
            /\ isLoading' = FALSE
            /\ task' = [task EXCEPT ![t] = [@ EXCEPT !.pc = "rejected", !.got = reply]]
            /\ UNCHANGED user
       ELSE IF task[t].pc = "login"
       THEN /\ task' = [task EXCEPT ![t] = [@ EXCEPT !.pc = "me", !.got = reply]]
            /\ UNCHANGED <<user, isLoading, authError>>
       ELSE /\ user' = reply.body
            /\ isLoading' = FALSE
            /\ task' = [task EXCEPT ![t] = [@ EXCEPT !.pc = "resolved", !.got = reply]]
            /\ UNCHANGED authError
    /\ UNCHANGED <<clientVars, storeVars, pageVars>>

\* register(username, email, password) up to "await authService.register(...)"
Register(t, username) ==
    /\ Mounted
    /\ task[t].pc = "idle"
    /\ isLoading' = TRUE
    /\ authError' = NoMessage
    /\ task' = [task EXCEPT ![t] = [@ EXCEPT !.kind = "register", !.pc = "register",
                                             !.arg = username,
                                             !.since = LogoutsSettled]]
    /\ UNCHANGED user
    /\ UNCHANGED <<clientVars, storeVars, pageVars>>

\* register after its await
RegisterResume(t, reply) ==
    /\ task[t].kind = "register"
    /\ task[t].pc = "register"
    /\ reply \in RepliesTo("register")
    /\ IF reply.ok
       THEN /\ user' = reply.body
            /\ task' = [task EXCEPT ![t] = [@ EXCEPT !.pc = "resolved", !.got = reply]]
            /\ UNCHANGED authError
       ELSE /\ authError' = reply.message
            /\ task' = [task EXCEPT ![t] = [@ EXCEPT !.pc = "rejected", !.got = reply]]
            /\ UNCHANGED user
    /\ isLoading' = FALSE
    /\ UNCHANGED <<clientVars, storeVars, pageVars>>

\* logout() up to "await authService.logout()"
Logout(t) ==
    /\ Mounted
    /\ task[t].pc = "idle"
    /\ isLoading' = TRUE
    /\ task' = [task EXCEPT ![t] = [@ EXCEPT !.kind = "logout", !.pc = "logout"]]
    /\ UNCHANGED <<user, authError>>
    /\ UNCHANGED <<clientVars, storeVars, pageVars>>

\* variant: the catch block leaves the user as it is
LogoutResumeKeepsUser(t, reply) ==
    /\ task[t].kind = "logout"
    /\ task[t].pc = "logout"
    /\ reply \in RepliesTo("logout")
    /\ user' = IF reply.ok THEN NoUser ELSE user
    /\ authError' = IF reply.ok THEN NoMessage ELSE reply.message
    /\ isLoading' = FALSE
    /\ task' = [task EXCEPT ![t] = [@ EXCEPT !.pc = "resolved", !.got = reply]]
    /\ UNCHANGED <<clientVars, storeVars, pageVars>>

\* logout after its await: the catch block does not rethrow
LogoutResume(t, reply) ==
    /\ task[t].kind = "logout"
    /\ task[t].pc = "logout"
    /\ reply \in RepliesTo("logout")
    /\ user' = NoUser
    /\ authError' = IF reply.ok THEN NoMessage ELSE reply.message
    /\ isLoading' = FALSE
    /\ task' = [task EXCEPT ![t] = [@ EXCEPT !.pc = "resolved", !.got = reply]]
    /\ UNCHANGED <<clientVars, storeVars, pageVars>>

\* clearError()
ClearError ==
    /\ authError # NoMessage
    /\ authError' = NoMessage
    /\ UNCHANGED <<user, isLoading, task>>
    /\ UNCHANGED <<clientVars, storeVars, pageVars>>

AuthReplies == UNION {RepliesTo(a) : a \in {"me", "register", "login", "logout"}}

\* ================================================= server credential store
\* bound: renewal credentials created in one run
NumCreds == 2

\* bound: the server clock runs from 0 to MaxTime
MaxTime == 4

\* bound: server operations in one run
MaxOps == 5

\* renewal lifetime and access lifetime, in ticks of the model's clock
RenewalLifetime == 2

AccessLifetime == 1

NoTime == -1

NoPlaintext == 0

\* the plaintexts a request can present; the last one is never issued
Plaintexts == 1..(NumCreds + 1)

\* the one-way hash under which a plaintext is stored
Hash(plaintext) == (plaintext * 5) % 7

Hashes == {Hash(p) : p \in Plaintexts}

NoRecord == [user |-> NoUser, expires_at |-> NoTime, revoked_at |-> NoTime]

NoAccess == [sub |-> NoUser, exp |-> NoTime]

NoCookies == [access |-> NoAccess, refresh |-> NoPlaintext]

NoOp == [seq |-> 0, op |-> "none", presented |-> NoPlaintext, hash |-> 0,
         status |-> 0, at |-> 0]

\* no verifyRenewalCredential call has been made
NoVerify == [pc |-> "idle", presented |-> NoPlaintext, at |-> NoTime,
             snapshot |-> NoRecord, verdict |-> "none"]

StoreInit ==
    /\ now = 0
    /\ records = [h \in Hashes |-> NoRecord]
    /\ cookie = NoCookies
    /\ issued = 0
    /\ created = 0
    /\ last = NoOp
    /\ verify = NoVerify

\* ===================================================== retry loop and delay
\* the configurations a client is constructed with, the default among them
RetryConfigs ==
    [maxRetries : 1..4, baseDelay : {500, 1000}, maxDelay : {800, 2000, 10000},
     backoffMultiplier : {1, 2, 3}]

DEFAULT_RETRY_CONFIG ==
    [maxRetries |-> maxRetries, baseDelay |-> 1000, maxDelay |-> 10000,
     backoffMultiplier |-> 2]

\* Math.pow for a non-negative integer exponent
RECURSIVE Pow(_, _)
Pow(base, exponent) == IF exponent = 0 THEN 1 ELSE base * Pow(base, exponent - 1)

\* Math.min
Min(a, b) == IF a <= b THEN a ELSE b

\* variant: the exponent is the attempt, not the attempt minus one
calculateDelayFromAttempt(attempt) ==
    LET delay == retryConfig.baseDelay * Pow(retryConfig.backoffMultiplier, attempt)
    IN  Min(delay, retryConfig.maxDelay)

\* calculateDelay(attempt)
calculateDelay(attempt) ==
    LET delay == retryConfig.baseDelay * Pow(retryConfig.backoffMultiplier, attempt - 1)
    IN  Min(delay, retryConfig.maxDelay)

\* the errors makeRequest throws
ThrownErrors == {ErrorOf(response) : response \in ErrorResponses \cup NetworkErrors}

\* request() entered: attempt 1 is running, nothing slept yet
NewLoop == [pc |-> "running", attempt |-> 1, slept |-> <<>>, lastError |-> NoError]

\* catch block of request(): throw on the last attempt or on an error that is
\* not retryable, sleep calculateDelay(attempt) otherwise
AttemptThrows(error) ==
    /\ loop.pc = "running"
    /\ IF loop.attempt = retryConfig.maxRetries
       THEN loop' = [loop EXCEPT !.pc = "thrown", !.lastError = error]
       ELSE IF ~isRetryableError(error, error.status)
            THEN loop' = [loop EXCEPT !.pc = "thrown", !.lastError = error]
            ELSE loop' = [loop EXCEPT !.pc = "sleeping", !.lastError = error,
                                      !.slept = Append(@, calculateDelay(loop.attempt))]
    /\ UNCHANGED retryConfig
    /\ UNCHANGED <<clientVars, authVars, storeVars, progressVars, todosVars>>

\* makeRequest returned: request() returns its result
AttemptReturns ==
    /\ loop.pc = "running"
    /\ loop' = [loop EXCEPT !.pc = "returned"]
    /\ UNCHANGED retryConfig
    /\ UNCHANGED <<clientVars, authVars, storeVars, progressVars, todosVars>>

\* the setTimeout of sleep() fires: next iteration of the loop
SleepDone ==
    /\ loop.pc = "sleeping"
    /\ loop' = [loop EXCEPT !.pc = "running", !.attempt = @ + 1]
    /\ UNCHANGED retryConfig
    /\ UNCHANGED <<clientVars, authVars, storeVars, progressVars, todosVars>>

DelayInit ==
    /\ retryConfig = DEFAULT_RETRY_CONFIG
    /\ loop = NewLoop

\* ======================================================== ProgressProvider
\* bound: startLoading and stopLoading calls in one run
MaxCalls == 8

ProgressInit ==
    /\ progressLoading = FALSE
    /\ loadingCount = 0
    /\ progressCalls = <<>>

\* Math.max
Max(a, b) == IF a >= b THEN a ELSE b

\* the calls of one kind made so far
CallsOf(kind) == Cardinality({i \in 1..Len(progressCalls) : progressCalls[i] = kind})

\* the operations started and not yet stopped
Unstopped == CallsOf("start") - CallsOf("stop")

\* startLoading(): one updater on loadingCount, then setIsLoading(true)
StartLoading ==
    /\ Len(progressCalls) < MaxCalls
    /\ loadingCount' = loadingCount + 1
    /\ progressLoading' = TRUE
    /\ progressCalls' = Append(progressCalls, "start")
    /\ UNCHANGED <<clientVars, authVars, storeVars, delayVars, todosVars>>

\* stopLoading(), called by an operation that had called startLoading: two
\* updaters on loadingCount, the second applied to the result of the first
StopLoading ==
    /\ Len(progressCalls) < MaxCalls
    /\ Unstopped > 0
    /\ LET prev == Max(0, loadingCount - 1)
       IN  IF prev <= 1
           THEN /\ progressLoading' = FALSE
                /\ loadingCount' = 0
           ELSE /\ loadingCount' = prev - 1
                /\ UNCHANGED progressLoading
    /\ progressCalls' = Append(progressCalls, "stop")
    /\ UNCHANGED <<clientVars, authVars, storeVars, delayVars, todosVars>>

\* ================================================================ useTodos
\* bound: fetchTodos calls in one run
NumFetches == 3

Fetches == 1..NumFetches

\* "[]"
NoItems == [page |-> 0, filter |-> "none", version |-> 0]

IdleFetch == [pc |-> "idle", page |-> 0, filter |-> "none",
              items |-> NoItems, total |-> 0]

TodosInit ==
    /\ todos = NoItems
    /\ total = 0
    /\ todosLoading = TRUE
    /\ todosError = NoMessage
    /\ fetch = [f \in Fetches |-> IdleFetch]

\* the arguments of fetchTodos: page and priority filter
Pages == {1, 2}

Filters == {"all", "high"}

\* Error.message of what todoService.getTodos throws
FetchMessages == {"Authentication required", "Failed to fetch"}

\* what the server answers to getTodos(page, filter): response.items
ItemsOf(page, filter) == [page |-> page, filter |-> filter, version |-> 1]

\* response.total
TotalOf(filter) == IF filter = "all" THEN 40 ELSE 20

Issued == {f \in Fetches : fetch[f].pc # "idle"}

\* fetchTodos(page, page_size, priority, search) up to its await; calls are
\* numbered in the order they are made
FetchTodos(f, page, filter) ==
    /\ fetch[f].pc = "idle"
    /\ \A g \in Fetches : g < f => fetch[g].pc # "idle"
    /\ todosLoading' = TRUE
    /\ todosError' = NoMessage
    /\ fetch' = [fetch EXCEPT ![f] = [@ EXCEPT !.pc = "awaiting", !.page = page,
                                               !.filter = filter]]
    /\ UNCHANGED <<todos, total>>
    /\ UNCHANGED <<clientVars, authVars, storeVars, delayVars, progressVars>>

\* fetchTodos after "await todoService.getTodos(...)" resolved
FetchResolves(f) ==
    /\ fetch[f].pc = "awaiting"
    /\ todos' = ItemsOf(fetch[f].page, fetch[f].filter)
    /\ total' = TotalOf(fetch[f].filter)
    /\ todosLoading' = FALSE
    /\ fetch' = [fetch EXCEPT ![f] = [@ EXCEPT !.pc = "resolved",
                                               !.items = ItemsOf(fetch[f].page, fetch[f].filter),
                                               !.total = TotalOf(fetch[f].filter)]]
    /\ UNCHANGED todosError
    /\ UNCHANGED <<clientVars, authVars, storeVars, delayVars, progressVars>>

\* fetchTodos after "await todoService.getTodos(...)" rejected: the catch
\* block records the message and does not rethrow
FetchRejects(f, message) ==
    /\ fetch[f].pc = "awaiting"
    /\ todosError' = message
    /\ todosLoading' = FALSE
    /\ fetch' = [fetch EXCEPT ![f] = [@ EXCEPT !.pc = "rejected"]]
    /\ UNCHANGED <<todos, total>>
    /\ UNCHANGED <<clientVars, authVars, storeVars, delayVars, progressVars>>

Init == ClientInit /\ AuthInit /\ StoreInit /\ DelayInit /\ ProgressInit /\ TodosInit

\* the response to the operation just handled
Done(op, presented, hash, status) ==
    [seq |-> last.seq + 1, op |-> op, presented |-> presented, hash |-> hash,
     status |-> status, at |-> now]

issueAccessCredential(userId) == [sub |-> userId, exp |-> now + AccessLifetime]

\* the record issueRenewalCredential stores for a new plaintext
issueRenewalCredential(userId) ==
    [user |-> userId, expires_at |-> now + RenewalLifetime, revoked_at |-> NoTime]

\* variant: the expiry instant itself still counts as valid
verifyRenewalCredentialInclusive(plaintext) ==
    LET record == records[Hash(plaintext)]
    IN  IF record = NoRecord THEN "NotFound"
        ELSE IF record.revoked_at # NoTime THEN "Revoked"
        ELSE IF ~(now <= record.expires_at) THEN "Expired"
        ELSE "ok"

\* variant: the revocation timestamp is not looked at
verifyRenewalCredentialUnrevoked(plaintext) ==
    LET record == records[Hash(plaintext)]
    IN  IF record = NoRecord THEN "NotFound"
        ELSE IF ~(now < record.expires_at) THEN "Expired"
        ELSE "ok"

\* hash the plaintext, look it up, check revocation and expiry
verifyRenewalCredential(plaintext) ==
    LET record == records[Hash(plaintext)]
    IN  IF record = NoRecord THEN "NotFound"
        ELSE IF record.revoked_at # NoTime THEN "Revoked"
        ELSE IF ~(now < record.expires_at) THEN "Expired"
        ELSE "ok"

\* variant: the timestamp is set at every revoke
revokeOverwrites(recs, hash) ==
    IF recs[hash] # NoRecord
    THEN [recs EXCEPT ![hash].revoked_at = now]
    ELSE recs

\* revoke(recordId): sets the timestamp once
revoke(recs, hash) ==
    IF recs[hash] # NoRecord /\ recs[hash].revoked_at = NoTime
    THEN [recs EXCEPT ![hash].revoked_at = now]
    ELSE recs

\* POST /auth/login and POST /auth/register: create(userId), both transport
\* entries set
PostLogin(userId) ==
    /\ last.seq < MaxOps
    /\ created < NumCreds
    /\ created' = created + 1
    /\ records' = [records EXCEPT ![Hash(created + 1)] = issueRenewalCredential(userId)]
    /\ cookie' = [access |-> issueAccessCredential(userId), refresh |-> created + 1]
    /\ issued' = issued + 1
    /\ last' = Done("login", NoPlaintext, Hash(created + 1), 200)
    /\ UNCHANGED now
    /\ UNCHANGED <<verify, clientVars, authVars, pageVars>>

\* variant: a successful refresh uses the renewal credential up
PostRefreshRotates(plaintext) ==
    /\ last.seq < MaxOps
    /\ IF verifyRenewalCredential(plaintext) = "ok"
       THEN /\ cookie' = [cookie EXCEPT !.access =
                             issueAccessCredential(records[Hash(plaintext)].user)]
            /\ issued' = issued + 1
            /\ records' = revoke(records, Hash(plaintext))
            /\ last' = Done("refresh", plaintext, Hash(plaintext), 200)
       ELSE /\ last' = Done("refresh", plaintext, Hash(plaintext), 401)
            /\ UNCHANGED <<cookie, issued, records>>
    /\ UNCHANGED <<now, created>>
    /\ UNCHANGED <<verify, clientVars, authVars, pageVars>>

\* POST /auth/refresh presenting a plaintext: a new access credential on
\* success, 401 and no transport change otherwise
PostRefresh(plaintext) ==
    /\ last.seq < MaxOps
    /\ IF verifyRenewalCredential(plaintext) = "ok"
       THEN /\ cookie' = [cookie EXCEPT !.access =
                             issueAccessCredential(records[Hash(plaintext)].user)]
            /\ issued' = issued + 1
            /\ last' = Done("refresh", plaintext, Hash(plaintext), 200)
       ELSE /\ last' = Done("refresh", plaintext, Hash(plaintext), 401)
            /\ UNCHANGED <<cookie, issued>>
    /\ UNCHANGED <<now, records, created>>
    /\ UNCHANGED <<verify, clientVars, authVars, pageVars>>

\* variant: logout clears the transport entries only
PostLogoutClearsOnly ==
    /\ last.seq < MaxOps
    /\ cookie.refresh # NoPlaintext
    /\ cookie' = NoCookies
    /\ last' = Done("logout", cookie.refresh, Hash(cookie.refresh), 200)
    /\ UNCHANGED <<now, records, issued, created>>
    /\ UNCHANGED <<verify, clientVars, authVars, pageVars>>

\* POST /auth/logout: revokes the renewal credential of the transport and
\* clears both transport entries
PostLogout ==
    /\ last.seq < MaxOps
    /\ cookie.refresh # NoPlaintext
    /\ records' = revoke(records, Hash(cookie.refresh))
    /\ cookie' = NoCookies
    /\ last' = Done("logout", cookie.refresh, Hash(cookie.refresh), 200)
    /\ UNCHANGED <<now, issued, created>>
    /\ UNCHANGED <<verify, clientVars, authVars, pageVars>>

\* revoke(recordId) called on any record, revoked or not
Revoke(hash) ==
    /\ last.seq < MaxOps
    /\ records[hash] # NoRecord
    /\ records' = revoke(records, hash)
    /\ last' = Done("revoke", NoPlaintext, hash, 200)
    /\ UNCHANGED <<now, cookie, issued, created>>
    /\ UNCHANGED <<verify, clientVars, authVars, pageVars>>

\* a record counts as of the user's when it is stored
OwnedBy(userId) == {h \in Hashes : records[h] # NoRecord /\ records[h].user = userId}

RECURSIVE revokeEach(_, _)
revokeEach(recs, hashes) ==
    IF hashes = {} THEN recs
    ELSE LET h == CHOOSE x \in hashes : TRUE
         IN  revokeEach(revoke(recs, h), hashes \ {h})

\* revokeAllForUser(userId)
RevokeAllForUser(userId) ==
    /\ last.seq < MaxOps
    /\ OwnedBy(userId) # {}
    /\ records' = revokeEach(records, OwnedBy(userId))
    /\ last' = Done("revokeAll", NoPlaintext, 0, 200)
    /\ UNCHANGED <<now, cookie, issued, created>>
    /\ UNCHANGED <<verify, clientVars, authVars, pageVars>>

\* the records whose expiry has passed
Expired == {h \in Hashes : records[h] # NoRecord /\ records[h].expires_at <= now}

\* variant: the fields of an expired record are cleared one sweep at a time
SweepExpiredInPlace ==
    /\ last.seq < MaxOps
    /\ records' = [h \in Hashes |->
                      IF h \notin Expired THEN records[h]
                      ELSE IF records[h].user # NoUser
                           THEN [records[h] EXCEPT !.user = NoUser]
                           ELSE NoRecord]
    /\ last' = Done("sweep", NoPlaintext, 0, Cardinality(Expired))
    /\ UNCHANGED <<now, cookie, issued, created>>
    /\ UNCHANGED <<verify, clientVars, authVars, pageVars>>

\* sweepExpired(): deletes the expired records
SweepExpired ==
    /\ last.seq < MaxOps
    /\ records' = [h \in Hashes |-> IF h \in Expired THEN NoRecord ELSE records[h]]
    /\ last' = Done("sweep", NoPlaintext, 0, Cardinality(Expired))
    /\ UNCHANGED <<now, cookie, issued, created>>
    /\ UNCHANGED <<verify, clientVars, authVars, pageVars>>

\* verifyRenewalCredential(plaintext), first half: the record is looked up by
\* hash and read as it is at this moment
VerifyRead(plaintext) ==
    /\ verify.pc = "idle"
    /\ verify' = [verify EXCEPT !.pc = "read", !.presented = plaintext, !.at = now,
                                !.snapshot = records[Hash(plaintext)]]
    /\ UNCHANGED <<now, records, cookie, issued, created, last>>
    /\ UNCHANGED <<clientVars, authVars, pageVars>>

\* verifyRenewalCredential, second half: the checks on the record read, with
\* the time of the read
VerifyDecide ==
    /\ verify.pc = "read"
    /\ verify' = [verify EXCEPT
                     !.pc = "done",
                     !.verdict = IF verify.snapshot = NoRecord THEN "NotFound"
                                 ELSE IF verify.snapshot.revoked_at # NoTime THEN "Revoked"
                                 ELSE IF ~(verify.at < verify.snapshot.expires_at)
                                      THEN "Expired"
                                 ELSE "ok"]
    /\ UNCHANGED <<now, records, cookie, issued, created, last>>
    /\ UNCHANGED <<clientVars, authVars, pageVars>>

\* time passes
Tick ==
    /\ now < MaxTime
    /\ now' = now + 1
    /\ UNCHANGED <<records, cookie, issued, created, last>>
    /\ UNCHANGED <<verify, clientVars, authVars, pageVars>>

\* ============================================================= HttpClient
\* number of POST /auth/refresh issued by performRefresh so far
refreshCalls == Cardinality({p \in PromiseIds : promises[p] # "unused"})

\* refresh calls whose fetch has not returned yet
Outstanding == {p \in PromiseIds : promises[p] = "pending"}

\* ------------------------------------------- request(): the backoff loop
\* variant: the last attempt is not told apart, a retryable error always sleeps
CatchWithoutLastAttempt(rec, error) ==
    IF ~isRetryableError(error, error.status)
    THEN [rec EXCEPT !.pc = "failed", !.error = error]
    ELSE [rec EXCEPT !.pc = "sleeping"]

\* catch block of request(): the call after makeRequest threw `error`
Catch(rec, error) ==
    IF rec.attempt = maxRetries
    THEN [rec EXCEPT !.pc = "failed", !.error = error]
    ELSE IF ~isRetryableError(error, error.status)
         THEN [rec EXCEPT !.pc = "failed", !.error = error]
         ELSE [rec EXCEPT !.pc = "sleeping"]

\* the call once fetch() has settled with `response`
Received(rec, response) ==
    [rec EXCEPT !.status = response.status, !.cause = response.cause]

\* makeRequest() after an ok response to its request or to its retry
Complete(rec, response, from) ==
    IF BodyOf(response) = "rejects"
    THEN Catch(Received(rec, response), ParseError)
    ELSE [Received(rec, response) EXCEPT
              !.pc = "done",
              !.result = [from |-> from, value |-> BodyOf(response)]]

\* makeRequest() up to its first await: the fetch of the endpoint is sent
Send(rec) ==
    [rec EXCEPT !.pc = "fetching", !.sent = @ + 1, !.tries = 1,
                !.status = NoStatus, !.cause = "none", !.awaited = Null,
                !.refreshed = "none"]

\* request(endpoint): first iteration of the loop
Request(c, endpoint) ==
    /\ call[c].pc = "idle"
    /\ call' = [call EXCEPT ![c] = Send([call[c] EXCEPT !.endpoint = endpoint,
                                                         !.attempt = 1])]
    /\ UNCHANGED <<isRefreshing, refreshPromise, promises, refreshReply>>
    /\ UNCHANGED <<authVars, storeVars, pageVars>>

\* variant: the loop counter is not advanced
WakeSameAttempt(c) ==
    /\ call[c].pc = "sleeping"
    /\ call' = [call EXCEPT ![c] = Send(call[c])]
    /\ UNCHANGED <<isRefreshing, refreshPromise, promises, refreshReply>>
    /\ UNCHANGED <<authVars, storeVars, pageVars>>

\* the backoff sleep is over: next iteration of the loop
Wake(c) ==
    /\ call[c].pc = "sleeping"
    /\ call' = [call EXCEPT ![c] = Send([call[c] EXCEPT !.attempt = @ + 1])]
    /\ UNCHANGED <<isRefreshing, refreshPromise, promises, refreshReply>>
    /\ UNCHANGED <<authVars, storeVars, pageVars>>

\* ------------------------------------------------- refreshAccessToken()
\* variant: the promise test is inverted
RenewalPendingNegated == isRefreshing /\ refreshPromise = Null

\* "if (this.isRefreshing && this.refreshPromise)"
RenewalPending == isRefreshing /\ refreshPromise # Null

NewPromise == CHOOSE p \in PromiseIds : promises[p] = "unused" /\
                  \A q \in PromiseIds : promises[q] = "unused" => p <= q

\* "return this.refreshPromise": the caller awaits the promise already there
JoinRenewal(c, response) ==
    /\ call' = [call EXCEPT ![c].pc = "joined", ![c].status = 401,
                            ![c].cause = response.cause,
                            ![c].awaited = refreshPromise,
                            ![c].renewals = @ + 1]
    /\ UNCHANGED <<isRefreshing, refreshPromise, promises, refreshReply>>

\* variant: once a renewal has settled, its promise is handed out again
StartRenewalCached(c, response) ==
    LET settled == {p \in PromiseIds : promises[p] \in {"true", "false"}}
        p == IF settled = {} THEN NewPromise
             ELSE CHOOSE q \in settled : \A r \in settled : r <= q
    IN  /\ isRefreshing' = TRUE
        /\ refreshPromise' = p
        /\ promises' = IF settled = {} THEN [promises EXCEPT ![p] = "pending"]
                       ELSE promises
        /\ call' = [call EXCEPT ![c].pc = "refreshing", ![c].status = 401,
                                ![c].cause = response.cause,
                                ![c].awaited = p,
                                ![c].renewals = @ + 1]
        /\ UNCHANGED refreshReply

\* variant: the promise is not stored in the handle
StartRenewalUnpublished(c, response) ==
    /\ isRefreshing' = TRUE
    /\ refreshPromise' = Null
    /\ promises' = [promises EXCEPT ![NewPromise] = "pending"]
    /\ call' = [call EXCEPT ![c].pc = "refreshing", ![c].status = 401,
                            ![c].cause = response.cause,
                            ![c].awaited = NewPromise,
                            ![c].renewals = @ + 1]
    /\ UNCHANGED refreshReply

\* the flag and the promise are set, performRefresh() sends POST /auth/refresh,
\* the caller awaits the new promise
StartRenewal(c, response) ==
    /\ isRefreshing' = TRUE
    /\ refreshPromise' = NewPromise
    /\ promises' = [promises EXCEPT ![NewPromise] = "pending"]
    /\ call' = [call EXCEPT ![c].pc = "refreshing", ![c].status = 401,
                            ![c].cause = response.cause,
                            ![c].awaited = NewPromise,
                            ![c].renewals = @ + 1]
    /\ UNCHANGED refreshReply

\* variant: only an expired credential leads to a renewal
TriggersRenewalOnExpiry(endpoint, response) ==
    response.status = 401 /\ response.cause = "expired" /\ ~Exempt(endpoint)

\* "response.status === 401 && endpoint !== ... && endpoint !== ..."
TriggersRenewal(endpoint, response) ==
    response.status = 401 /\ ~Exempt(endpoint)

\* the response to the first fetch of makeRequest arrives
Response(c, response) ==
    /\ call[c].pc = "fetching"
    /\ IF response.kind = "reject"
       THEN /\ call' = [call EXCEPT ![c] =
                          Catch(Received(call[c], response), FetchError(response))]
            /\ UNCHANGED <<isRefreshing, refreshPromise, promises, refreshReply>>
       ELSE IF TriggersRenewal(call[c].endpoint, response)
       THEN IF RenewalPending THEN JoinRenewal(c, response)
                              ELSE StartRenewal(c, response)
       ELSE IF ~Ok(response)
       THEN /\ call' = [call EXCEPT ![c] =
                          Catch(Received(call[c], response), HttpError(response))]
            /\ UNCHANGED <<isRefreshing, refreshPromise, promises, refreshReply>>
       ELSE /\ call' = [call EXCEPT ![c] = Complete(call[c], response, "request")]
            /\ UNCHANGED <<isRefreshing, refreshPromise, promises, refreshReply>>
    /\ UNCHANGED <<authVars, storeVars, pageVars>>

\* variant: no try/catch around the fetch, a rejected fetch rejects the promise
RefreshOutcomeUncaught(response) ==
    IF response.kind = "reject" THEN "rejected"
    ELSE IF Ok(response) THEN "true" ELSE "false"

\* performRefresh() after its fetch: true for an ok response, false for any
\* other response and for a rejected fetch
RefreshOutcome(response) == IF Ok(response) THEN "true" ELSE "false"

\* how the fetch of performRefresh ended
ReplyKind(response) ==
    IF response.kind = "reject" THEN "reject"
    ELSE IF Ok(response) THEN "ok" ELSE "error"

\* the shared promise resolves; it never rejects
RefreshResponse(p, response) ==
    /\ promises[p] = "pending"
    /\ promises' = [promises EXCEPT ![p] = RefreshOutcome(response)]
    /\ refreshReply' = [refreshReply EXCEPT ![p] = ReplyKind(response)]
    /\ UNCHANGED <<isRefreshing, refreshPromise, call>>
    /\ UNCHANGED <<authVars, storeVars, pageVars>>

\* variant: the promise object itself is taken for its value (no await)
ResolvedUnawaited(p, value) == value = "true" \/ promises[p] = value

\* "await <promise>" has produced `value`
Resolved(p, value) == promises[p] = value

Settled(p) == Resolved(p, "true") \/ Resolved(p, "false")

\* makeRequest() after "await this.refreshAccessToken()"
AfterRefresh(rec, refreshed) ==
    IF refreshed
    THEN [rec EXCEPT !.pc = "retrying", !.refreshed = "true", !.sent = @ + 1,
                     !.tries = @ + 1, !.status = NoStatus, !.cause = "none"]
    ELSE Catch([rec EXCEPT !.refreshed = "false"], AuthRequired)

\* variant: the finally block clears the promise and leaves the flag
OwnerResumeKeepsFlag(c) ==
    /\ call[c].pc = "refreshing"
    /\ Settled(call[c].awaited)
    /\ isRefreshing' = isRefreshing
    /\ refreshPromise' = Null
    /\ call' = [call EXCEPT ![c] = AfterRefresh(call[c], Resolved(call[c].awaited, "true"))]
    /\ UNCHANGED <<promises, refreshReply>>
    /\ UNCHANGED <<authVars, storeVars, pageVars>>

\* variant: the promise is cleared on success only
OwnerResumeKeepsPromise(c) ==
    /\ call[c].pc = "refreshing"
    /\ Settled(call[c].awaited)
    /\ isRefreshing' = FALSE
    /\ refreshPromise' = IF Resolved(call[c].awaited, "true") THEN Null ELSE refreshPromise
    /\ call' = [call EXCEPT ![c] = AfterRefresh(call[c], Resolved(call[c].awaited, "true"))]
    /\ UNCHANGED <<promises, refreshReply>>
    /\ UNCHANGED <<authVars, storeVars, pageVars>>

\* the caller that started the renewal resumes: finally block, then makeRequest
OwnerResume(c) ==
    /\ call[c].pc = "refreshing"
    /\ Settled(call[c].awaited)
    /\ isRefreshing' = FALSE
    /\ refreshPromise' = Null
    /\ call' = [call EXCEPT ![c] = AfterRefresh(call[c], Resolved(call[c].awaited, "true"))]
    /\ UNCHANGED <<promises, refreshReply>>
    /\ UNCHANGED <<authVars, storeVars, pageVars>>

\* variant: a joiner takes the renewal for successful
JoinerResumeAssumesSuccess(c) ==
    /\ call[c].pc = "joined"
    /\ Settled(call[c].awaited)
    /\ call' = [call EXCEPT ![c] = AfterRefresh(call[c], TRUE)]
    /\ UNCHANGED <<isRefreshing, refreshPromise, promises, refreshReply>>
    /\ UNCHANGED <<authVars, storeVars, pageVars>>

\* a caller that joined the renewal resumes with the promise's value
JoinerResume(c) ==
    /\ call[c].pc = "joined"
    /\ Settled(call[c].awaited)
    /\ call' = [call EXCEPT ![c] = AfterRefresh(call[c], Resolved(call[c].awaited, "true"))]
    /\ UNCHANGED <<isRefreshing, refreshPromise, promises, refreshReply>>
    /\ UNCHANGED <<authVars, storeVars, pageVars>>

\* the response to the retry fetch arrives
RetryResponse(c, response) ==
    /\ call[c].pc = "retrying"
    /\ IF ~Ok(response)
       THEN call' = [call EXCEPT ![c] =
                       Catch(Received(call[c], response), ErrorOf(response))]
       ELSE call' = [call EXCEPT ![c] = Complete(call[c], response, "retry")]
    /\ UNCHANGED <<isRefreshing, refreshPromise, promises, refreshReply>>
    /\ UNCHANGED <<authVars, storeVars, pageVars>>

Next ==
    \/ \E c \in Calls, endpoint \in Endpoints : Request(c, endpoint)
    \/ \E c \in Calls, response \in Responses : Response(c, response)
    \/ \E p \in PromiseIds, response \in Responses : RefreshResponse(p, response)
    \/ \E c \in Calls : OwnerResume(c)
    \/ \E c \in Calls : JoinerResume(c)
    \/ \E c \in Calls, response \in Responses : RetryResponse(c, response)
    \/ \E c \in Calls : Wake(c)

Spec == Init /\ [][Next]_vars

\* the continuation a call is waiting for: a fetch settling, a settled
\* promise resuming its awaiter, the setTimeout of the backoff firing
CallStep(c) ==
    \/ \E response \in Responses : Response(c, response)
    \/ \E response \in Responses : RetryResponse(c, response)
    \/ OwnerResume(c)
    \/ JoinerResume(c)
    \/ Wake(c)

\* the fetch of performRefresh settling
RefreshStep == \E p \in PromiseIds, response \in Responses : RefreshResponse(p, response)

\* every fetch settles, every settled promise resumes its awaiters, every
\* setTimeout fires; a call waits for one of these at a time, and at most
\* one refresh fetch is in flight
Fairness ==
    /\ \A c \in Calls : WF_vars(CallStep(c))
    /\ WF_vars(RefreshStep)

FairSpec == Spec /\ Fairness

NextAuth ==
    \/ \E t \in Tasks : Mount(t)
    \/ \E t \in Tasks, reply \in AuthReplies : CheckAuthResume(t, reply)
    \/ \E t \in Tasks, username \in Users : Login(t, username)
    \/ \E t \in Tasks, reply \in AuthReplies : LoginResume(t, reply)
    \/ \E t \in Tasks, username \in Users : Register(t, username)
    \/ \E t \in Tasks, reply \in AuthReplies : RegisterResume(t, reply)
    \/ \E t \in Tasks : Logout(t)
    \/ \E t \in Tasks, reply \in AuthReplies : LogoutResume(t, reply)
    \/ ClearError

SpecAuth == Init /\ [][NextAuth]_vars

NextStore ==
    \/ \E userId \in Users : PostLogin(userId)
    \/ \E plaintext \in Plaintexts : PostRefresh(plaintext)
    \/ PostLogout
    \/ \E hash \in Hashes : Revoke(hash)
    \/ \E userId \in Users : RevokeAllForUser(userId)
    \/ SweepExpired
    \/ Tick

SpecStore == Init /\ [][NextStore]_vars

\* the store with a verifyRenewalCredential call running beside its operations
NextSweep ==
    \/ NextStore
    \/ \E plaintext \in Plaintexts : VerifyRead(plaintext)
    \/ VerifyDecide

SpecSweep == Init /\ [][NextSweep]_vars

\* a client constructed with any of the configurations
InitDelay ==
    /\ ClientInit /\ AuthInit /\ StoreInit /\ ProgressInit /\ TodosInit
    /\ retryConfig \in RetryConfigs
    /\ loop = NewLoop

NextDelay ==
    \/ \E error \in ThrownErrors : AttemptThrows(error)
    \/ AttemptReturns
    \/ SleepDone

SpecDelay == InitDelay /\ [][NextDelay]_vars

NextProgress ==
    \/ StartLoading
    \/ StopLoading

SpecProgress == Init /\ [][NextProgress]_vars

NextTodos ==
    \/ \E f \in Fetches, page \in Pages, filter \in Filters : FetchTodos(f, page, filter)
    \/ \E f \in Fetches : FetchResolves(f)
    \/ \E f \in Fetches, message \in FetchMessages : FetchRejects(f, message)

SpecTodos == Init /\ [][NextTodos]_vars

\* ================================================================ claims
\* calls whose 401 on a non-exempt endpoint has been handled by now
Handled401 == {c \in Calls : call[c].renewals >= 1}

NoRenewalSettled == \A p \in PromiseIds : promises[p] \in {"unused", "pending"}

\* C1: when two or more calls have each received a 401 on a non-exempt
\* endpoint and no renewal has settled yet, exactly one POST /auth/refresh
\* has been issued, and all of these calls await that one renewal.
C1_SingleFlight ==
    (NoRenewalSettled /\ Cardinality(Handled401) >= 2) =>
        /\ refreshCalls = 1
        /\ \A c \in Handled401 :
              call[c].awaited # Null /\ promises[call[c].awaited] = "pending"
        /\ \A c, d \in Handled401 : call[c].awaited = call[d].awaited

C1_Witness ==
    /\ NoRenewalSettled
    /\ Cardinality(Handled401) >= 2
    /\ refreshCalls = 1
    /\ \E c, d \in Calls : call[c].pc = "refreshing" /\ call[d].pc = "joined"

\* C2: in every reachable state at most one POST /auth/refresh issued by
\* performRefresh is outstanding, and while one is outstanding the handle
\* names it, so that the next 401 joins it.
C2_AtMostOneOutstanding ==
    /\ Cardinality(Outstanding) <= 1
    /\ \A p \in Outstanding : isRefreshing /\ refreshPromise = p

C2_Witness ==
    /\ Cardinality(Outstanding) = 1
    /\ refreshCalls >= 2
    /\ \E c \in Calls : call[c].pc = "joined" /\ call[c].awaited \in Outstanding

\* C3: every caller that has resumed from a renewal observed the value the
\* awaited renewal settled with, hence the same value as every other caller
\* of that renewal; on true it has sent its retry, exactly one in this
\* makeRequest, and on false it has failed with "Authentication required"
\* (status 401) without sending a retry.
C3_SameOutcome ==
    \A c \in Calls :
        call[c].refreshed # "none" =>
            /\ call[c].refreshed = promises[call[c].awaited]
            /\ \A d \in Calls :
                  (call[d].refreshed # "none" /\ call[d].awaited = call[c].awaited)
                      => call[d].refreshed = call[c].refreshed
            /\ call[c].refreshed = "true" => call[c].tries = 2
            /\ call[c].refreshed = "false" =>
                  /\ call[c].pc = "failed"
                  /\ call[c].error = AuthRequired
                  /\ call[c].tries = 1

\* the starter and a joiner of one failed renewal have both resumed
C3_Witness ==
    \E c, d \in Calls :
        /\ c # d
        /\ call[c].awaited = call[d].awaited
        /\ call[c].refreshed = "false" /\ call[d].refreshed = "false"
        /\ call[c].renewals = 1 /\ call[d].renewals = 1
        /\ call[c].sent = 1 /\ call[d].sent = 1

\* C4: a call whose post-renewal retry received 401 has failed with a 401
\* error; when that happened in its first attempt it has made exactly one
\* renewal and sent exactly two requests (the original and one retry).
C4_SecondUnauthorizedIsTerminal ==
    \A c \in Calls :
        (call[c].tries = 2 /\ call[c].status = 401) =>
            /\ call[c].pc = "failed"
            /\ call[c].error.status = 401
            /\ call[c].attempt = 1 => (call[c].renewals = 1 /\ call[c].sent = 2)

\* C5: a call whose post-renewal retry has failed, with any response that is
\* not ok or with a rejected fetch, has ended in failure.
C5_RetryFailureIsTerminal ==
    \A c \in Calls :
        (call[c].tries = 2 /\ call[c].status # NoStatus
            /\ ~(call[c].status >= 200 /\ call[c].status <= 299)) =>
                call[c].pc = "failed"

\* the renewal endpoint and the login endpoint
AuthEndpoints == {"/auth/refresh", "/auth/login"}

\* C6: a call on /auth/refresh or /auth/login never starts or joins a
\* renewal, whatever it receives, and every POST /auth/refresh of
\* performRefresh is started by the 401 handler of a call on another
\* endpoint, never by the response to a refresh call.
C6_SelfRecursionGuard ==
    [][ /\ \A c \in Calls :
              call'[c].endpoint \in AuthEndpoints =>
                  /\ call'[c].renewals = 0
                  /\ call'[c].pc \notin {"refreshing", "joined", "retrying"}
        /\ (\E p \in PromiseIds : promises[p] = "unused" /\ promises'[p] # "unused") =>
              \E c \in Calls :
                  /\ call[c].endpoint \notin AuthEndpoints
                  /\ call[c].pc = "fetching"
                  /\ call'[c].pc = "refreshing"
        /\ (\E p \in PromiseIds : promises[p] = "pending" /\ promises'[p] = "false") =>
              /\ call' = call
              /\ \A p \in PromiseIds : promises[p] = "unused" => promises'[p] = "unused"
      ]_vars

\* a login call was answered 401 and a refresh call was answered not ok
C6_Witness ==
    /\ \E c \in Calls :
          /\ call[c].endpoint = LoginEndpoint
          /\ call[c].status = 401
          /\ call[c].pc = "failed"
    /\ \E p \in PromiseIds : promises[p] = "false"

\* C7: a caller that resumes from a renewal that failed goes straight to
\* failure with status 401 and message "Authentication required", sending
\* nothing; and a failed call does nothing more.
C7_RenewalFailureIsTerminal ==
    [][ \A c \in Calls :
          /\ (/\ call[c].pc \in {"refreshing", "joined"}
              /\ call'[c] # call[c]
              /\ promises[call[c].awaited] = "false") =>
                  /\ call'[c].pc = "failed"
                  /\ call'[c].error = AuthRequired
                  /\ call'[c].sent = call[c].sent
                  /\ call'[c].renewals = call[c].renewals
          /\ call[c].pc = "failed" => call'[c] = call[c]
      ]_vars

\* the renewal failed in a first attempt, with attempts left
C7_Witness ==
    \E c \in Calls :
        /\ call[c].pc = "failed"
        /\ call[c].error = AuthRequired
        /\ call[c].attempt = 1
        /\ call[c].sent = 1

\* C8: a retry is in flight only after the renewal its call awaited has
\* settled with success; and a call that received 401, saw the renewal
\* succeed and the retry succeed returns the retry's result with no error.
C8_TransparentRecovery ==
    \A c \in Calls :
        /\ call[c].pc = "retrying" =>
              /\ promises[call[c].awaited] = "true"
              /\ call[c].refreshed = "true"
              /\ call[c].tries = 2
        /\ (call[c].pc = "done" /\ call[c].renewals >= 1 /\ call[c].awaited # Null) =>
              /\ promises[call[c].awaited] = "true"
              /\ call[c].refreshed = "true"
              /\ call[c].result.from = "retry"
              /\ call[c].error = NoError
              /\ call[c].tries = 2

C8_Witness ==
    \E c \in Calls :
        /\ call[c].pc = "done"
        /\ call[c].refreshed = "true"
        /\ call[c].result = [from |-> "retry", value |-> "json"]
        /\ call[c].sent = 2

\* C9: in every state with no refresh call outstanding and no starter waiting
\* to resume, the handle is empty: isRefreshing is false and refreshPromise
\* is null, after successful and after failed renewals alike.
C9_HandleCleared ==
    (Outstanding = {} /\ \A c \in Calls : call[c].pc # "refreshing") =>
        (isRefreshing = FALSE /\ refreshPromise = Null)

\* one renewal has succeeded, one has failed, and nothing is pending
C9_Witness ==
    /\ Outstanding = {}
    /\ \A c \in Calls : call[c].pc # "refreshing"
    /\ \E p, q \in PromiseIds : promises[p] = "true" /\ promises[q] = "false"

\* C10: a call whose first fetch of an attempt was answered with a 4xx other
\* than 401 has failed with that status and has never started or joined a
\* renewal; when it was the first attempt, exactly one request was sent.
C10_ClientErrorIsTerminal ==
    \A c \in Calls :
        (call[c].tries = 1 /\ call[c].status >= 400 /\ call[c].status <= 499
            /\ call[c].status # 401) =>
                /\ call[c].pc = "failed"
                /\ call[c].error.status = call[c].status
                /\ call[c].attempt = 1 => (call[c].sent = 1 /\ call[c].renewals = 0)

\* C11: a call whose latest fetch was answered 5xx or rejected with a network
\* error is waiting to be re-attempted, unless that was attempt maxRetries,
\* in which case it has failed with the error of that attempt.
C11_TransientErrorsRetried ==
    \A c \in Calls :
        (call[c].status = 0 \/ call[c].status >= 500) =>
            \/ call[c].pc = "sleeping"
            \/ /\ call[c].pc = "failed"
               /\ call[c].attempt = maxRetries
               /\ call[c].error.status = call[c].status

\* C12 as claimed: a call whose 401 was caused by an invalid credential has
\* not started or joined a renewal for it.
C12_OnlyExpiryStartsRenewal ==
    \A c \in Calls :
        call[c].cause = "invalid" =>
            (call[c].awaited = Null /\ call[c].pc \notin {"refreshing", "joined"})

\* C12 as amended: a call starts or joins a renewal exactly when the first
\* fetch of an attempt on an endpoint other than /auth/refresh and
\* /auth/login is answered 401, whatever the cause of the 401.
C12_EveryUnauthorizedStartsRenewal ==
    [][ \A c \in Calls :
          (call'[c].renewals = call[c].renewals + 1)
              <=> (/\ call[c].pc = "fetching"
                   /\ call'[c].pc # "fetching"
                   /\ call'[c].status = 401
                   /\ call[c].endpoint \notin AuthEndpoints)
      ]_vars

C12_Witness ==
    \E c, d \in Calls :
        /\ call[c].cause = "invalid" /\ call[c].pc = "refreshing"
        /\ call[d].cause = "expired" /\ call[d].pc = "joined"

\* C13: the shared promise only ever resolves, to true or to false; when the
\* refresh fetch was rejected it resolved to false, and every caller that has
\* resumed from a renewal that failed, by rejection or by a response that is
\* not ok, has failed with "Authentication required" (status 401).
C13_RefreshErrorIsFailure ==
    /\ \A p \in PromiseIds :
          /\ promises[p] \in {"unused", "pending", "true", "false"}
          /\ refreshReply[p] \in {"reject", "error"} => promises[p] = "false"
          /\ refreshReply[p] = "none" <=> promises[p] \in {"unused", "pending"}
    /\ \A c \in Calls :
          (/\ call[c].awaited # Null
           /\ refreshReply[call[c].awaited] \in {"reject", "error"}
           /\ call[c].pc \notin {"refreshing", "joined"}) =>
              /\ call[c].pc = "failed"
              /\ call[c].refreshed = "false"
              /\ call[c].error = AuthRequired

\* the starter and a joiner of a renewal whose fetch was rejected have failed
C13_Witness ==
    \E c, d \in Calls :
        /\ c # d
        /\ call[c].awaited = call[d].awaited
        /\ call[c].awaited # Null
        /\ refreshReply[call[c].awaited] = "reject"
        /\ call[c].pc = "failed" /\ call[d].pc = "failed"

\* C14: a call never is in an attempt beyond maxRetries, and, when fetches,
\* promises and sleeps complete, every call that was invoked settles.
C14_EveryCallSettles ==
    /\ [](\A c \in Calls : call[c].attempt <= maxRetries /\ call[c].sent <= 2 * maxRetries)
    /\ \A c \in Calls :
          (call[c].pc # "idle") ~> (call[c].pc \in {"done", "failed"})

\* a call has settled in its last attempt
C14_Witness ==
    \E c \in Calls :
        /\ call[c].pc \in {"done", "failed"}
        /\ call[c].attempt = maxRetries

\* C15: a call that failed on a response that was not ok threw an error with
\* the status of the latest response it received, the first response of the
\* attempt or the retry's; a call that failed on a failed renewal threw 401.
C15_ErrorCarriesStatus ==
    \A c \in Calls :
        call[c].pc = "failed" =>
            /\ call[c].refreshed = "false" => call[c].error.status = 401
            /\ (/\ call[c].refreshed # "false"
                /\ call[c].status >= 300) => call[c].error.status = call[c].status

\* the retry after a renewal was answered 404
C15_Witness ==
    \E c \in Calls :
        /\ call[c].pc = "failed"
        /\ call[c].tries = 2
        /\ call[c].status = 404
        /\ call[c].error.status = 404

\* C16: isAuthenticated is true exactly when user is not null, and user
\* changes to a user only in the step in which an awaited GET /users/me (of
\* checkAuth or of login) or the awaited register call resolves successfully,
\* and then to the user of that response.
C16_SessionFromServer ==
    /\ [](isAuthenticated <=> user # "null")
    /\ [][ (user' # user /\ user' # "null") =>
             \E t \in Tasks :
                 /\ task[t].pc \in {"me", "register"}
                 /\ task'[t].pc = "resolved"
                 /\ task'[t].got.ok
                 /\ task'[t].got.body = user'
         ]_vars

\* a login has resolved and the user is the one the server named, not the
\* username typed in
C16_Witness ==
    \E t \in Tasks :
        /\ task[t].kind = "login"
        /\ task[t].pc = "resolved"
        /\ isAuthenticated
        /\ user = task[t].got.body
        /\ user # task[t].arg

\* a server operation has just been handled
Handled(op) == last'.seq = last.seq + 1 /\ last'.op = op

\* C17: every refresh answers 200 or 401; it answers 200 and mints an access
\* credential exactly when the record of the presented credential is stored,
\* its revoked_at is null and now < expires_at, and mints nothing otherwise.
C17_UsableIffUnrevokedAndUnexpired ==
    [][ Handled("refresh") =>
          LET record == records[Hash(last'.presented)]
              usable == /\ record # NoRecord
                        /\ record.revoked_at = NoTime
                        /\ now < record.expires_at
          IN  /\ last'.status \in {200, 401}
              /\ (last'.status = 200) <=> usable
              /\ issued' = IF usable THEN issued + 1 ELSE issued
      ]_vars

\* the one credential created was used for a successful refresh and a later
\* refresh presenting it was rejected
C17_Witness ==
    /\ created = 1
    /\ issued >= 2
    /\ last.op = "refresh"
    /\ last.presented = 1
    /\ last.status = 401

\* C18: logout leaves the renewal credential of the transport revoked; a
\* revoked record never becomes unrevoked and a deleted record never comes
\* back; every refresh presenting a revoked, expired or unknown credential
\* answers 401, mints no access credential and changes neither the cookies
\* nor the store; the client turns a 401 of the refresh call into
\* "Authentication required".
C18_RevokedRefreshRejected ==
    /\ \A response \in ErrorResponses :
          /\ RefreshOutcome(response) = "false"
          /\ AfterRefresh([IdleCall EXCEPT !.pc = "refreshing", !.attempt = 1],
                          FALSE).error = AuthRequired
    /\ [][ /\ (Handled("logout") /\ cookie.refresh # NoPlaintext) =>
                 /\ records'[Hash(cookie.refresh)].revoked_at # NoTime
                    \/ records'[Hash(cookie.refresh)] = NoRecord
                 /\ cookie' = NoCookies
           /\ \A h \in Hashes :
                 /\ (records[h] # NoRecord /\ records[h].revoked_at # NoTime) =>
                        (records'[h] = NoRecord \/ records'[h].revoked_at # NoTime)
                 /\ (\E p \in 1..created : Hash(p) = h /\ records[h] = NoRecord) =>
                        records'[h] = NoRecord
           /\ (/\ Handled("refresh")
               /\ LET record == records[Hash(last'.presented)]
                  IN  \/ record = NoRecord
                      \/ record.revoked_at # NoTime
                      \/ record.expires_at <= now) =>
                 /\ last'.status = 401
                 /\ issued' = issued
                 /\ cookie' = cookie
                 /\ records' = records
         ]_vars

\* after a logout, a refresh presenting the revoked credential was rejected
C18_Witness ==
    /\ last.op = "refresh"
    /\ last.status = 401
    /\ records[last.hash] # NoRecord
    /\ records[last.hash].revoked_at # NoTime
    /\ now < records[last.hash].expires_at
    /\ cookie = NoCookies

\* C19: a refresh presenting a stored, unrevoked credential at the instant
\* now = expires_at answers 401 and mints no access credential.
C19_ExpiryBoundary ==
    [][ (/\ Handled("refresh")
         /\ records[Hash(last'.presented)] # NoRecord
         /\ records[Hash(last'.presented)].revoked_at = NoTime
         /\ records[Hash(last'.presented)].expires_at = now) =>
            /\ last'.status = 401
            /\ issued' = issued
            /\ cookie' = cookie
      ]_vars

\* a refresh at the expiry instant of an unrevoked credential was rejected
C19_Witness ==
    /\ last.op = "refresh"
    /\ last.status = 401
    /\ records[last.hash] # NoRecord
    /\ records[last.hash].revoked_at = NoTime
    /\ records[last.hash].expires_at = last.at

\* C20: a revoke, directly, by logout or for all records of a user, answers
\* without error and leaves every record that was revoked before as it was.
C20_RevokeIdempotent ==
    [][ (Handled("revoke") \/ Handled("logout") \/ Handled("revokeAll")) =>
          /\ last'.status = 200
          /\ \A h \in Hashes :
                (records[h] # NoRecord /\ records[h].revoked_at # NoTime) =>
                    records'[h] = records[h]
      ]_vars

\* revoke was called on a record that had been revoked at an earlier time
C20_Witness ==
    /\ last.op = "revoke"
    /\ last.status = 200
    /\ records[last.hash] # NoRecord
    /\ records[last.hash].revoked_at # NoTime
    /\ records[last.hash].revoked_at < last.at

\* C26: in every state isRefreshing is true exactly when refreshPromise is
\* not null, and every step changes both fields or neither.
C26_FlagIffHandle ==
    /\ [](isRefreshing <=> refreshPromise # 0)
    /\ [][(isRefreshing' # isRefreshing) <=> ((refreshPromise' = 0) # (refreshPromise = 0))]_vars

\* the two fields have been set, cleared and set again
C26_Witness ==
    /\ isRefreshing
    /\ refreshPromise # 0
    /\ \E p \in PromiseIds : p # refreshPromise /\ promises[p] \in {"true", "false"}

\* C27: a call has started or joined at most maxRetries renewals and has
\* sent at most 2 * maxRetries requests to its endpoint.
C27_BoundedRenewalsAndSends ==
    \A c \in Calls :
        /\ call[c].renewals <= 3
        /\ call[c].sent <= 2 * 3
        /\ call[c].renewals <= call[c].attempt
        /\ call[c].sent <= 2 * call[c].attempt

\* a call has used up both bounds
C27_Witness ==
    \E c \in Calls : call[c].renewals = 3 /\ call[c].sent = 6

\* C28: a call whose 401 is handled while no renewal handle is set starts a
\* POST /auth/refresh of its own, on a promise not used before, and the
\* number of refresh calls changes in no other step.
C28_RenewalNotCached ==
    [][ /\ \A c \in Calls :
              (/\ call'[c].renewals = call[c].renewals + 1
               /\ ~(isRefreshing /\ refreshPromise # 0)) =>
                  /\ refreshCalls' = refreshCalls + 1
                  /\ call'[c].pc = "refreshing"
                  /\ promises[call'[c].awaited] = "unused"
                  /\ promises'[call'[c].awaited] = "pending"
        /\ refreshCalls' # refreshCalls =>
              /\ refreshCalls' = refreshCalls + 1
              /\ ~(isRefreshing /\ refreshPromise # 0)
              /\ \E c \in Calls : call'[c].renewals = call[c].renewals + 1
      ]_vars

\* after a renewal has failed and its handle was cleared, another call has
\* started a renewal of its own
C28_Witness ==
    \E c, d \in Calls :
        /\ c # d
        /\ call[c].awaited # 0
        /\ call[d].awaited # 0
        /\ call[c].awaited # call[d].awaited
        /\ promises[call[c].awaited] = "false"
        /\ call[d].pc = "refreshing"
        /\ promises[call[d].awaited] = "pending"
        /\ refreshCalls = 2

\* C23: the k-th sleep of a request lasts min(baseDelay *
\* backoffMultiplier^(k-1), maxDelay), 1000 ms then 2000 ms with the
\* defaults; no sleep is longer than maxDelay or shorter than the one before;
\* a request that has thrown in attempt k has slept k - 1 times, so not after
\* the error it threw; a request never sleeps maxRetries times, and it sleeps
\* only after an error that isRetryableError classes as retryable.
C23_BackoffDelay ==
    LET base == retryConfig.baseDelay
        mult == retryConfig.backoffMultiplier
        cap == retryConfig.maxDelay
        slept == loop.slept
    IN  /\ \A k \in 1..Len(slept) :
              /\ slept[k] = (IF base * Pow(mult, k - 1) <= cap
                             THEN base * Pow(mult, k - 1) ELSE cap)
              /\ slept[k] <= cap
              /\ k > 1 => slept[k - 1] <= slept[k]
        /\ Len(slept) < retryConfig.maxRetries
        /\ loop.pc = "sleeping" =>
              /\ Len(slept) = loop.attempt
              /\ isRetryableError(loop.lastError, loop.lastError.status)
        /\ (loop.pc = "thrown" /\ loop.attempt < retryConfig.maxRetries) =>
              ~isRetryableError(loop.lastError, loop.lastError.status)
        /\ loop.pc \in {"running", "thrown", "returned"} => Len(slept) = loop.attempt - 1
        /\ (base = 1000 /\ mult = 2 /\ cap = 10000 /\ Len(slept) >= 1) => slept[1] = 1000
        /\ (base = 1000 /\ mult = 2 /\ cap = 10000 /\ Len(slept) >= 2) => slept[2] = 2000

\* with the defaults a request has slept 1000 ms and 2000 ms and then thrown
\* the error of its third attempt
C23_Witness ==
    /\ retryConfig = [maxRetries |-> 3, baseDelay |-> 1000, maxDelay |-> 10000,
                      backoffMultiplier |-> 2]
    /\ loop.pc = "thrown"
    /\ loop.slept = <<1000, 2000>>

\* C24: while an operation that called startLoading has not yet called
\* stopLoading, isLoading of the ProgressProvider is true.
C24_LoadingWhileOutstanding ==
    Unstopped > 0 => progressLoading

\* C30: when no fetchTodos call is awaiting its response and the call made
\* last has resolved, todos and total hold the response of that call.
C30_LatestFetchWins ==
    LET latest == CHOOSE f \in Issued : \A g \in Issued : g <= f
    IN  (/\ Issued # {}
         /\ \A f \in Fetches : fetch[f].pc # "awaiting"
         /\ fetch[latest].pc = "resolved") =>
            /\ todos = fetch[latest].items
            /\ total = fetch[latest].total

\* C25: the step in which a logout call settles leaves user null and
\* isLoading false; the call resolves, it never rejects; when the server call
\* failed, error holds its message, and null otherwise.
C25_LogoutAlwaysClears ==
    [][ \A t \in Tasks :
          (task[t].kind = "logout" /\ task[t].pc = "logout" /\ task'[t].pc # "logout") =>
              /\ task'[t].pc = "resolved"
              /\ user' = "null"
              /\ isLoading' = FALSE
              /\ authError' = IF task'[t].got.ok THEN "null" ELSE task'[t].got.message
      ]_vars

\* a logout whose server call failed has settled while a user was signed in
C25_Witness ==
    \E t, u \in Tasks :
        /\ task[t].kind = "logout"
        /\ task[t].pc = "resolved"
        /\ ~task[t].got.ok
        /\ authError = task[t].got.message
        /\ task[u].kind \in {"checkAuth", "login", "register"}
        /\ task[u].pc = "resolved"
        /\ user = "null"
        /\ ~isLoading

\* C29: once a logout has settled, user changes to a user only in the step in
\* which a login or register call made after that logout settled succeeds.
C29_UserStaysNullAfterLogout ==
    [][ (LogoutsSettled > 0 /\ user' # user /\ user' # "null") =>
          \E t \in Tasks :
              /\ task[t].kind \in {"login", "register"}
              /\ task[t].since = LogoutsSettled
              /\ task[t].pc \in {"me", "register"}
              /\ task'[t].pc = "resolved"
      ]_vars

\* C21: a refresh that answers 200 mints one access credential and leaves
\* the store, the refresh cookie and the number of renewal credentials as
\* they were, so the credential presented is still usable after it.
C21_RefreshDoesNotRotate ==
    [][ (Handled("refresh") /\ last'.status = 200) =>
          /\ issued' = issued + 1
          /\ records' = records
          /\ created' = created
          /\ cookie'.refresh = cookie.refresh
          /\ records'[Hash(last'.presented)].revoked_at = NoTime
          /\ now' < records'[Hash(last'.presented)].expires_at
      ]_vars

\* the one credential created has been used for two successful refreshes
C21_Witness ==
    /\ created = 1
    /\ issued = 3
    /\ last.op = "refresh"
    /\ last.status = 200
    /\ cookie.refresh = last.presented

\* a record as create stores it, revoked or not
Whole(record) ==
    /\ record.user \in Users
    /\ record.expires_at >= RenewalLifetime
    /\ record.revoked_at = NoTime \/ record.revoked_at >= 0

\* C22: every stored record and the record a verify call in flight has read
\* is either absent or whole; the verdict of the call is that of the record
\* it read at the time it read it; a sweep changes a record only by deleting
\* it, and only when its expiry has passed.
C22_SweepSafeUnderVerify ==
    /\ [](\A h \in Hashes : records[h] = NoRecord \/ Whole(records[h]))
    /\ [](verify.pc # "idle" => (verify.snapshot = NoRecord \/ Whole(verify.snapshot)))
    /\ [](verify.pc = "done" =>
            /\ verify.verdict = "NotFound" <=> verify.snapshot = NoRecord
            /\ verify.verdict = "ok" <=>
                  /\ verify.snapshot # NoRecord
                  /\ verify.snapshot.revoked_at = NoTime
                  /\ verify.at < verify.snapshot.expires_at)
    /\ [][ Handled("sweep") =>
             \A h \in Hashes :
                 records'[h] # records[h] =>
                     /\ records'[h] = NoRecord
                     /\ records[h].expires_at <= now
         ]_vars

\* a verify call read a record at the instant of its expiry, the sweep
\* deleted the record while the call was in flight, and the call found the
\* credential expired
C22_Witness ==
    /\ verify.pc = "done"
    /\ verify.snapshot # NoRecord
    /\ verify.snapshot.revoked_at = NoTime
    /\ verify.snapshot.expires_at = verify.at
    /\ verify.verdict = "Expired"
    /\ records[Hash(verify.presented)] = NoRecord
    /\ now = verify.at
====
